---- MODULE Spec2Model ----
(***************************************************************************)
(* Zoho CRM -> WhatsApp automation: the cohort classifier, the segment     *)
(* resolver and the send paths (campaign, polling, webhook) of             *)
(* src/main.py, with the collaborators of src/zoho_integration.py,         *)
(* src/aisensy_integration.py, src/sheets_tracker.py and                   *)
(* src/email_reports.py.                                                   *)
(***************************************************************************)
EXTENDS Integers, Sequences, FiniteSets, TLC

VARIABLES
    leads,      \* the lead records the CRM holds (zoho "Leads" module)
    ledger,     \* the rows of the "Message Log" worksheet, in append order
    notes,      \* the notes the CRM holds (Parent_Id of each), in order
    sends,      \* number of requests posted to the messaging transport
    emails,     \* number of campaign summary emails delivered
    token,      \* zoho.access_token is cached and not expired
    template_env, \* os.getenv('NEW_LEAD_TEMPLATE')
    overlap,    \* the server handles requests concurrently
    run,        \* the request handler in progress, per worker
    started,    \* number of requests accepted so far
    faults,     \* number of collaborator faults so far
    snapshot,   \* (leads, message_history) handed to the pure functions
    cohorts,    \* the value analyze_cohorts returned
    resolved,   \* the segment get_leads_for_segment was asked and its value
    summary     \* the campaign summary email last rendered

vars == <<leads, ledger, notes, sends, emails, token, template_env, overlap,
          run, started, faults, snapshot, cohorts, resolved, summary>>

-----------------------------------------------------------------------------
(* Bounds of the model.                                                    *)
MaxLen == 2         \* leads in a snapshot given to the pure functions
MaxHist == 3        \* history records in such a snapshot
MaxRuns == 2        \* requests accepted in one behaviour
MaxFaults == 2      \* collaborator faults in one behaviour
MaxTotal == 4       \* largest count in a result given to the summary email
MaxNoPhone == 10    \* leads without a phone ahead of one with a phone

-----------------------------------------------------------------------------
(* Python values.  A dict field is absent, None, a str or an int.          *)
Absent == [t |-> "absent", s |-> "", n |-> 0]
NoneV == [t |-> "none", s |-> "", n |-> 0]
StrV(x) == [t |-> "str", s |-> x, n |-> 0]
IntV(k) == [t |-> "int", s |-> "", n |-> k]

\* d.get(key, default) on the value stored under the key
Get(v, default) == IF v.t = "absent" THEN default ELSE v

Digit == <<"0", "1", "2", "3", "4", "5", "6", "7", "8", "9">>

RECURSIVE Dec(_)
Dec(k) == IF k < 10 THEN Digit[k + 1] ELSE Dec(k \div 10) \o Digit[(k % 10) + 1]

\* str(v)
Str(v) == CASE v.t = "none" -> "None"
            [] v.t = "str" -> v.s
            [] v.t = "int" -> Dec(v.n)

\* bool(v): None, '' and 0 are falsy
Truthy(v) == CASE v.t = "none" -> FALSE
               [] v.t = "absent" -> FALSE
               [] v.t = "str" -> v.s # ""
               [] v.t = "int" -> v.n # 0

\* a or b
Or(a, b) == IF Truthy(a) THEN a ELSE b

\* a == b on Python values (None, str and int never equal one another)
PyEq(a, b) == a.t = b.t /\ a.s = b.s /\ a.n = b.n

Front(s) == SubSeq(s, 1, Len(s) - 1)

\* dict operations on a TLA+ function
EmptyDict == [k \in {} |-> 0]
DictGet(d, k, default) == IF k \in DOMAIN d THEN d[k] ELSE default
DictSet(d, k, v) == [x \in (DOMAIN d) \cup {k} |-> IF x = k THEN v ELSE d[x]]

-----------------------------------------------------------------------------
(* Lead records as zoho.get_all_leads returns them.                        *)
Lead(id, phone, mobile, status, source) ==
    [id |-> id, Phone |-> phone, Mobile |-> mobile,
     Lead_Status |-> status, Lead_Source |-> source]

LeadA == Lead(StrV("1"), StrV("9876543210"), Absent, StrV("Contacted"), StrV("Web"))
LeadB == Lead(StrV("2"), NoneV, NoneV, StrV("Qualified"), StrV("a:b"))
LeadC == Lead(Absent, NoneV, StrV("919876501234"), Absent, Absent)
LeadD == Lead(StrV("3"), StrV(""), StrV(""), StrV("a:b"), StrV("a"))
LeadE == Lead(StrV("4"), StrV("+919876500000"), NoneV, StrV("Unknown"), StrV("Web"))
LeadF == Lead(StrV("5"), StrV("9876500001"), NoneV, StrV("New"), NoneV)

LeadPool == {LeadA, LeadB, LeadC, LeadD, LeadE, LeadF}

\* the 'Lead ID' values a record of get_all_records can carry
HistIds == {Absent, StrV(""), IntV(1), IntV(2)}

Rec(id, n) == [Lead_ID |-> id, Message_Count |-> n]

-----------------------------------------------------------------------------
(* analyze_cohorts and get_leads_for_segment (src/main.py).                *)

\* the message count lookup built from the history
RECURSIVE message_counts(_)
message_counts(message_history) ==
    IF message_history = <<>> THEN EmptyDict
    ELSE LET mc == message_counts(Front(message_history))
             msg == message_history[Len(message_history)]
             lead_id == Str(Get(msg.Lead_ID, NoneV))
         IN  IF lead_id # ""
             THEN DictSet(mc, lead_id, DictGet(mc, lead_id, 0) + 1)
             ELSE mc

EmptyCohorts ==
    [never_contacted |-> <<>>, first_message |-> <<>>,
     second_message |-> <<>>, third_plus_message |-> <<>>,
     by_status |-> EmptyDict, by_source |-> EmptyDict,
     high_potential |-> <<>>]

\* the count buckets without the elif of count 2
CountBucket_NoSecond(count) ==
    IF count = 0 THEN "never_contacted"
    ELSE IF count = 1 THEN "first_message"
    ELSE "third_plus_message"

\* the count bucket a lead of that count is appended to
CountBucket(count) ==
    IF count = 0 THEN "never_contacted"
    ELSE IF count = 1 THEN "first_message"
    ELSE IF count = 2 THEN "second_message"
    ELSE "third_plus_message"

\* the high potential test with count <= 2
HighPotential_AtMostTwo(status, count) ==
    /\ \/ PyEq(status, StrV("Contacted"))
       \/ PyEq(status, StrV("Qualified"))
    /\ count <= 2

\* the high potential test
HighPotential(status, count) ==
    /\ \/ PyEq(status, StrV("Contacted"))
       \/ PyEq(status, StrV("Qualified"))
    /\ count < 2

\* the loop body with the source default left out
Categorize_NoSourceDefault(c, lead, mc) ==
    LET lead_id == Str(Get(lead.id, NoneV))
        count == DictGet(mc, lead_id, 0)
        status == Get(lead.Lead_Status, StrV("Unknown"))
        source == Get(lead.Lead_Source, NoneV)
        b == CountBucket(count)
        c1 == [c EXCEPT ![b] = Append(@, lead)]
        c2 == [c1 EXCEPT !.by_status =
                  DictSet(@, status, Append(DictGet(@, status, <<>>), lead))]
        c3 == [c2 EXCEPT !.by_source =
                  DictSet(@, source, Append(DictGet(@, source, <<>>), lead))]
    IN  IF HighPotential(status, count)
        THEN [c3 EXCEPT !.high_potential = Append(@, lead)]
        ELSE c3

\* the body of the loop over the leads
Categorize(c, lead, mc) ==
    LET lead_id == Str(Get(lead.id, NoneV))
        count == DictGet(mc, lead_id, 0)
        status == Get(lead.Lead_Status, StrV("Unknown"))
        source == Get(lead.Lead_Source, StrV("Unknown"))
        b == CountBucket(count)
        c1 == [c EXCEPT ![b] = Append(@, lead)]
        c2 == [c1 EXCEPT !.by_status =
                  DictSet(@, status, Append(DictGet(@, status, <<>>), lead))]
        c3 == [c2 EXCEPT !.by_source =
                  DictSet(@, source, Append(DictGet(@, source, <<>>), lead))]
    IN  IF HighPotential(status, count)
        THEN [c3 EXCEPT !.high_potential = Append(@, lead)]
        ELSE c3

RECURSIVE CategorizeAll(_, _)
CategorizeAll(ls, mc) ==
    IF ls = <<>> THEN EmptyCohorts
    ELSE Categorize(CategorizeAll(Front(ls), mc), ls[Len(ls)], mc)

analyze_cohorts(ls, message_history) ==
    CategorizeAll(ls, message_counts(message_history))

-----------------------------------------------------------------------------
(* Segment identifiers.  A str is held as the list of its ':'-separated    *)
(* fields, which is what segment.split(':') returns: 'status:a:b' is       *)
(* <<"status", "a", "b">> and 'bogus' is <<"bogus">>.                      *)
Seg(x) == <<x>>

\* prefix + v for a prefix that ends in ':' (fields of v follow the prefix's)
Prefixed(prefix, v) == <<prefix>> \o v

\* segment.startswith(prefix + ':')
StartsWith(segment, prefix) == Len(segment) >= 2 /\ segment[1] = prefix

\* segment.split(':')[1]
SplitSecond(segment) == segment[2]

\* ':'.join(fields): the str the fields stand for
RECURSIVE Join(_)
Join(fields) ==
    IF Len(fields) = 1 THEN fields[1]
    ELSE Join(Front(fields)) \o ":" \o fields[Len(fields)]

\* the resolver with 'first_message' taken as count >= 1
get_leads_for_segment_AtLeastOne(segment, all_leads, message_history) ==
    LET mc == message_counts(message_history)
        Cnt(l) == DictGet(mc, Str(Get(l.id, NoneV)), 0)
        Never(l) == Cnt(l) = 0
        First(l) == Cnt(l) >= 1
        ByStatus(l) == PyEq(Get(l.Lead_Status, NoneV), StrV(SplitSecond(segment)))
        BySource(l) == PyEq(Get(l.Lead_Source, NoneV), StrV(SplitSecond(segment)))
    IN  IF segment = Seg("never_contacted") THEN SelectSeq(all_leads, Never)
        ELSE IF segment = Seg("first_message") THEN SelectSeq(all_leads, First)
        ELSE IF StartsWith(segment, "status") THEN SelectSeq(all_leads, ByStatus)
        ELSE IF StartsWith(segment, "source") THEN SelectSeq(all_leads, BySource)
        ELSE <<>>

get_leads_for_segment(segment, all_leads, message_history) ==
    LET mc == message_counts(message_history)
        Cnt(l) == DictGet(mc, Str(Get(l.id, NoneV)), 0)
        Never(l) == Cnt(l) = 0
        First(l) == Cnt(l) = 1
        ByStatus(l) == PyEq(Get(l.Lead_Status, NoneV), StrV(SplitSecond(segment)))
        BySource(l) == PyEq(Get(l.Lead_Source, NoneV), StrV(SplitSecond(segment)))
    IN  IF segment = Seg("never_contacted") THEN SelectSeq(all_leads, Never)
        ELSE IF segment = Seg("first_message") THEN SelectSeq(all_leads, First)
        ELSE IF StartsWith(segment, "status") THEN SelectSeq(all_leads, ByStatus)
        ELSE IF StartsWith(segment, "source") THEN SelectSeq(all_leads, BySource)
        ELSE <<>>

-----------------------------------------------------------------------------
(* The campaign summary email (email_reports.py).                          *)
Max(a, b) == IF a >= b THEN a ELSE b

\* a / b rounded to the nearest integer, a tie to the even one (round())
RoundHalfEven(a, b) ==
    LET q == a \div b
        r == a % b
    IN  IF 2 * r < b THEN q
        ELSE IF 2 * r > b THEN q + 1
        ELSE IF q % 2 = 0 THEN q ELSE q + 1

\* round(a / b * 100, 1) in tenths of a percent; a / 0 is a ZeroDivisionError
Percent(a, b) ==
    IF b = 0 THEN [fault |-> TRUE, tenths |-> 0]
    ELSE [fault |-> FALSE, tenths |-> RoundHalfEven(a * 1000, b)]

\* the rate with the division left unguarded
success_rate_NoGuard(results) ==
    Percent(Get(results.success, IntV(0)).n, Get(results.total, IntV(1)).n)

\* round(results.get('success', 0) / max(results.get('total', 1), 1) * 100, 1)
success_rate(results) ==
    Percent(Get(results.success, IntV(0)).n,
            Max(Get(results.total, IntV(1)).n, 1))

\* the email rendered from the results; an exception while rendering is
\* caught and nothing is sent
send_campaign_summary(results, ok) ==
    LET rate == success_rate(results)
    IN  [called |-> TRUE, results |-> results, rate |-> rate,
         sent |-> ~rate.fault /\ ok]

NoSummary ==
    [called |-> FALSE, results |-> <<>>,
     rate |-> [fault |-> FALSE, tenths |-> 0], sent |-> FALSE]

\* the results dict execute_campaign builds
ResultsDict(results) ==
    [total |-> IntV(results.total), success |-> IntV(results.success),
     failed |-> IntV(results.failed)]

-----------------------------------------------------------------------------
(* The pure functions applied to a snapshot of leads and history.          *)

\* the lists of at most n leads, no lead twice (CRM record ids are unique)
LeadLists(n) ==
    {ls \in UNION {[1..k -> LeadPool] : k \in 0..n} :
        \A i, j \in DOMAIN ls : i # j => ls[i] # ls[j]}

\* the histories of at most n records
Histories(n) == UNION {[1..k -> {Rec(id, 1) : id \in HistIds}] : k \in 0..n}

\* the segment identifiers asked for
FnSegments ==
    {Seg("never_contacted"), Seg("first_message"), Seg("second_message"),
     Seg("bogus")} \cup
    {Prefixed(k, v) : k \in {"status", "source"},
                      v \in {<<"Qualified">>, <<"Unknown">>, <<"Web">>, <<"a", "b">>}}

NoCohorts == [called |-> FALSE, value |-> EmptyCohorts]
NoResolved == [called |-> FALSE, segment |-> <<>>, value |-> <<>>]

InitFn ==
    /\ snapshot \in [leads : LeadLists(MaxLen), message_history : Histories(MaxHist)]
    /\ cohorts = NoCohorts
    /\ resolved = NoResolved
    /\ summary = NoSummary
    /\ leads = <<>> /\ ledger = <<>> /\ notes = <<>> /\ sends = 0 /\ emails = 0
    /\ token = FALSE /\ template_env = NoneV /\ overlap = FALSE
    /\ run = <<>> /\ started = 0 /\ faults = 0

AnalyzeCohorts ==
    /\ ~cohorts.called /\ ~resolved.called
    /\ cohorts' = [called |-> TRUE,
                   value |-> analyze_cohorts(snapshot.leads, snapshot.message_history)]
    /\ UNCHANGED <<leads, ledger, notes, sends, emails, token, template_env,
                   overlap, run, started, faults, snapshot, resolved, summary>>

GetLeadsForSegment(segment) ==
    /\ ~cohorts.called /\ ~resolved.called
    /\ resolved' = [called |-> TRUE, segment |-> segment,
                    value |-> get_leads_for_segment(segment, snapshot.leads,
                                                    snapshot.message_history)]
    /\ UNCHANGED <<leads, ledger, notes, sends, emails, token, template_env,
                   overlap, run, started, faults, snapshot, cohorts, summary>>

NextFn ==
    \/ AnalyzeCohorts
    \/ \E segment \in FnSegments : GetLeadsForSegment(segment)

SpecFn == InitFn /\ [][NextFn]_vars

-----------------------------------------------------------------------------
(* The summary email applied to a results dict.                            *)

\* a count of a results dict: the key is missing or holds a number
Counts(n) == {Absent} \cup {IntV(k) : k \in 0..n}

InitSummary ==
    /\ snapshot = [leads |-> <<>>, message_history |-> <<>>]
    /\ cohorts = NoCohorts
    /\ resolved = NoResolved
    /\ summary = NoSummary
    /\ leads = <<>> /\ ledger = <<>> /\ notes = <<>> /\ sends = 0 /\ emails = 0
    /\ token = FALSE /\ template_env = NoneV /\ overlap = FALSE
    /\ run = <<>> /\ started = 0 /\ faults = 0

SendCampaignSummary(results, ok) ==
    /\ ~summary.called
    /\ summary' = send_campaign_summary(results, ok)
    /\ emails' = IF summary'.sent THEN emails + 1 ELSE emails
    /\ UNCHANGED <<leads, ledger, notes, sends, token, template_env, overlap,
                   run, started, faults, snapshot, cohorts, resolved>>

NextSummary ==
    \E results \in [total : Counts(MaxTotal), success : Counts(MaxTotal),
                    failed : Counts(MaxTotal)], ok \in BOOLEAN :
        SendCampaignSummary(results, ok)

SpecSummary == InitSummary /\ [][NextSummary]_vars

-----------------------------------------------------------------------------
(* The collaborators: the sheet, the CRM, the transport.                   *)

\* the cell append_row stores for a value: None is an empty cell
Cell(v) == IF v.t \in {"none", "absent"} THEN "" ELSE Str(v)

\* the value get_all_records returns for a cell: numeric cells come back as int
Numericise(cell) ==
    IF \E k \in 0..99 : Dec(k) = cell
    THEN IntV(CHOOSE k \in 0..99 : Dec(k) = cell)
    ELSE StrV(cell)

\* SheetsTracker.get_all_messages: the records of the log, [] on error
get_all_messages(rows, ok) ==
    IF ok
    THEN [i \in 1..Len(rows) |-> Rec(Numericise(rows[i].Lead_ID), rows[i].Message_Count)]
    ELSE <<>>

\* the count with the row being written taken in
get_message_count_Next(rows, lead_id, ok) ==
    LET records == get_all_messages(rows, ok)
    IN  Cardinality({i \in DOMAIN records :
            Str(Get(records[i].Lead_ID, NoneV)) = Str(lead_id)}) + 1

\* SheetsTracker.get_message_count
get_message_count(rows, lead_id, ok) ==
    LET records == get_all_messages(rows, ok)
    IN  Cardinality({i \in DOMAIN records :
            Str(Get(records[i].Lead_ID, NoneV)) = Str(lead_id)})

\* the row written over the last row of the sheet
log_message_Overwrite(rows, lead_id, message_count, campaign_type, ok) ==
    IF ok
    THEN Append(Front(rows), [Lead_ID |-> Cell(lead_id),
                              Message_Count |-> message_count,
                              Campaign_Type |-> campaign_type])
    ELSE rows

\* SheetsTracker.log_message: the log after the call
log_message(rows, lead_id, message_count, campaign_type, ok) ==
    IF ok
    THEN Append(rows, [Lead_ID |-> Cell(lead_id), Message_Count |-> message_count,
                       Campaign_Type |-> campaign_type])
    ELSE rows

per_page == 200

\* page requests _get_records makes when none fails
PagesNeeded(records) == (Len(records) \div per_page) + 1

\* ZohoIntegration._get_records: the records of the pages fetched before a fault
get_records(records, pages_ok) ==
    IF pages_ok * per_page >= Len(records) THEN records
    ELSE SubSeq(records, 1, pages_ok * per_page)

\* ZohoIntegration.get_access_token raises: no valid token and the refresh failed
TokenRaises(valid, refresh_ok) == ~valid /\ ~refresh_ok

\* ZohoIntegration.get_lead_by_id, after the token: the record or None
get_lead_by_id(records, lead_id, ok) ==
    LET found == {i \in DOMAIN records : PyEq(records[i].id, StrV(Str(lead_id)))}
    IN  IF ok /\ found # {} THEN records[CHOOSE i \in found : TRUE] ELSE NoneV

\* ZohoIntegration.add_note, after the token: the notes after the call
add_note(ns, lead_id, ok) == IF ok THEN Append(ns, lead_id) ELSE ns

\* phone = lead.get('Phone') or lead.get('Mobile')
phone(lead) == Or(Get(lead.Phone, NoneV), Get(lead.Mobile, NoneV))

\* the test with "is None" in place of "not"
NoPhone_NoneOnly(lead) == phone(lead) = NoneV

\* if not phone
NoPhone(lead) == ~Truthy(phone(lead))

-----------------------------------------------------------------------------
(* Request handlers.  A worker handles one request at a time; its record   *)
(* holds the locals of the handler and the place it has reached.           *)
Workers == {"w1", "w2"}
ActiveWorkers == IF overlap THEN Workers ELSE {"w1"}

NoResults == [total |-> 0, success |-> 0, failed |-> 0]

IdleRun ==
    [kind |-> "none", pc |-> "idle", segment |-> <<>>, template |-> NoneV,
     leads |-> <<>>, i |-> 0, results |-> NoResults, result |-> "none",
     current_count |-> 0, lead_id |-> NoneV, response |-> "none",
     exc |-> "none"]

Free(p) == run[p].pc \in {"idle", "done"}

\* number of faults among the outcomes
Faulty(outcomes) == Cardinality({k \in DOMAIN outcomes : ~outcomes[k]})

Charge(outcomes) ==
    /\ faults + Faulty(outcomes) <= MaxFaults
    /\ faults' = faults + Faulty(outcomes)

Accept(p) ==
    /\ p \in ActiveWorkers
    /\ Free(p)
    /\ started < MaxRuns
    /\ started' = started + 1

\* the handler returns
Respond(r, response) == [r EXCEPT !.pc = "done", !.response = response]

\* an exception leaves the handler's body and the error response is returned
Raise(r, exc, response) ==
    [r EXCEPT !.pc = "done", !.response = response, !.exc = exc]

\* the current lead of the loop
Cur(r) == r.leads[r.i]

\* results['failed'] += 1 left out
SkipNoPhone_NotCounted(results) == results

\* results['failed'] += 1 for a lead without a phone
SkipNoPhone(results) == [results EXCEPT !.failed = @ + 1]

\* the failure counted as a success
SendFailed_AsSuccess(results) == [results EXCEPT !.success = @ + 1]

\* results['failed'] += 1 for a send the transport failed
SendFailed(results) == [results EXCEPT !.failed = @ + 1]

\* the else branch of the send ends the iteration with 'continue'
AfterFailedSend_Continue(r) == [r EXCEPT !.i = r.i + 1]

\* after a failed send the iteration goes on to time.sleep
AfterFailedSend(r) == [r EXCEPT !.pc = "sleep"]

\* results['success'] += 1
SendSucceeded(results) == [results EXCEPT !.success = @ + 1]

fnvars == <<snapshot, cohorts, resolved, summary>>
envvars == <<leads, template_env, overlap>>

-----------------------------------------------------------------------------
(* approve_campaign and execute_campaign.                                  *)

\* the segment and template arguments a request can carry; <<>> is a missing one
ArgPresent(arg) == arg # <<>> /\ arg # <<"">>

ApproveCampaign(p, campaign_id, segment, template) ==
    /\ Accept(p)
    /\ IF ~(Truthy(campaign_id) /\ ArgPresent(segment) /\ Truthy(template))
       THEN /\ run' = [run EXCEPT ![p] =
                  Respond([IdleRun EXCEPT !.kind = "approve",
                                          !.segment = segment,
                                          !.template = template], "400")]
            /\ UNCHANGED <<token, faults>>
       ELSE \E refresh_ok, hist_ok \in BOOLEAN, pages_ok \in 0..PagesNeeded(leads) :
            /\ token => refresh_ok
            /\ Charge(<<refresh_ok, hist_ok, pages_ok = PagesNeeded(leads)>>)
            /\ IF TokenRaises(token, refresh_ok)
               THEN /\ hist_ok /\ pages_ok = PagesNeeded(leads)
                    /\ run' = [run EXCEPT ![p] =
                          Raise([IdleRun EXCEPT !.kind = "campaign",
                                                !.segment = segment,
                                                !.template = template],
                                "get_all_leads", "500")]
                    /\ UNCHANGED token
               ELSE LET all_leads == get_records(leads, pages_ok)
                        message_history == get_all_messages(ledger, hist_ok)
                        ls == get_leads_for_segment(segment, all_leads, message_history)
                    IN  /\ run' = [run EXCEPT ![p] =
                              [IdleRun EXCEPT !.kind = "campaign", !.pc = "loop",
                                              !.segment = segment,
                                              !.template = template,
                                              !.leads = ls, !.i = 1,
                                              !.results = [total |-> Len(ls),
                                                           success |-> 0,
                                                           failed |-> 0]]]
                        /\ token' = TRUE
    /\ UNCHANGED <<ledger, notes, sends, emails, envvars, fnvars>>

\* the head of the loop: the phone test and the send
CampaignAttempt(p) ==
    LET r == run[p] IN
    /\ r.kind = "campaign" /\ r.pc = "loop" /\ r.i <= Len(r.leads)
    /\ IF NoPhone(Cur(r))
       THEN /\ run' = [run EXCEPT ![p] =
                  [r EXCEPT !.results = SkipNoPhone(r.results), !.i = r.i + 1]]
            /\ UNCHANGED <<sends, faults>>
       ELSE \E ok \in BOOLEAN :
            /\ Charge(<<ok>>)
            /\ sends' = sends + 1
            /\ run' = [run EXCEPT ![p] =
                  IF ok
                  THEN [r EXCEPT !.results = SendSucceeded(r.results),
                                 !.result = "success", !.pc = "count"]
                  ELSE AfterFailedSend([r EXCEPT !.results = SendFailed(r.results),
                                                 !.result = "failure"])]
    /\ UNCHANGED <<ledger, notes, emails, token, started, envvars, fnvars>>

\* current_count = sheets.get_message_count(lead_id) + 1
CampaignCount(p) ==
    LET r == run[p] IN
    /\ r.kind = "campaign" /\ r.pc = "count"
    /\ \E ok \in BOOLEAN :
          /\ Charge(<<ok>>)
          /\ run' = [run EXCEPT ![p] =
                [r EXCEPT !.current_count =
                              get_message_count(ledger, Get(Cur(r).id, NoneV), ok) + 1,
                          !.pc = "log"]]
    /\ UNCHANGED <<ledger, notes, sends, emails, token, started, envvars, fnvars>>

\* sheets.log_message(..., message_count=current_count, campaign_type='manual')
CampaignLog(p) ==
    LET r == run[p] IN
    /\ r.kind = "campaign" /\ r.pc = "log"
    /\ \E ok \in BOOLEAN :
          /\ Charge(<<ok>>)
          /\ ledger' = log_message(ledger, Get(Cur(r).id, NoneV), r.current_count,
                                   "manual", ok)
    /\ run' = [run EXCEPT ![p] = [r EXCEPT !.pc = "note"]]
    /\ UNCHANGED <<notes, sends, emails, token, started, envvars, fnvars>>

\* zoho.add_note; a failed token refresh raises out of execute_campaign
CampaignNote(p) ==
    LET r == run[p] IN
    /\ r.kind = "campaign" /\ r.pc = "note"
    /\ \E refresh_ok, ok \in BOOLEAN :
          /\ token => refresh_ok
          /\ Charge(<<refresh_ok, ok>>)
          /\ IF TokenRaises(token, refresh_ok)
             THEN /\ ok
                  /\ run' = [run EXCEPT ![p] = Raise(r, "add_note", "500")]
                  /\ UNCHANGED <<notes, token>>
             ELSE /\ notes' = add_note(notes, Get(Cur(r).id, NoneV), ok)
                  /\ run' = [run EXCEPT ![p] = [r EXCEPT !.pc = "sleep"]]
                  /\ token' = TRUE
    /\ UNCHANGED <<ledger, sends, emails, started, envvars, fnvars>>

\* time.sleep(1.5), then the next lead
CampaignSleep(p) ==
    LET r == run[p] IN
    /\ r.kind = "campaign" /\ r.pc = "sleep"
    /\ run' = [run EXCEPT ![p] = [r EXCEPT !.pc = "loop", !.i = r.i + 1]]
    /\ UNCHANGED <<ledger, notes, sends, emails, token, started, faults,
                   envvars, fnvars>>

\* after the loop: the summary email, then the approval page
CampaignFinish(p) ==
    LET r == run[p] IN
    /\ r.kind = "campaign" /\ r.pc = "loop" /\ r.i > Len(r.leads)
    /\ \E ok \in BOOLEAN :
          /\ Charge(<<ok>>)
          /\ summary' = send_campaign_summary(ResultsDict(r.results), ok)
          /\ emails' = IF summary'.sent THEN emails + 1 ELSE emails
    /\ run' = [run EXCEPT ![p] = Respond(r, "200")]
    /\ UNCHANGED <<ledger, notes, sends, token, started, envvars,
                   snapshot, cohorts, resolved>>

\* the cached access token passes its expiry time
TokenExpires ==
    /\ token
    /\ token' = FALSE
    /\ UNCHANGED <<leads, ledger, notes, sends, emails, template_env, overlap,
                   run, started, faults, fnvars>>

-----------------------------------------------------------------------------
(* check_new_leads: the polling path.                                      *)
poll_limit == 10

\* set(str(msg.get('Lead ID')) for msg in message_history if msg.get('Lead ID'))
messaged_lead_ids(message_history) ==
    {Str(Get(message_history[k].Lead_ID, NoneV)) :
        k \in {j \in DOMAIN message_history :
                  Truthy(Get(message_history[j].Lead_ID, NoneV))}}

\* [lead for lead in all_leads if str(lead.get('id')) not in messaged_lead_ids]
new_leads(all_leads, message_history) ==
    LET New(lead) == Str(Get(lead.id, NoneV)) \notin messaged_lead_ids(message_history)
    IN  SelectSeq(all_leads, New)

\* list[:n]
Slice(list, n) == IF Len(list) <= n THEN list ELSE SubSeq(list, 1, n)

\* the body of check_new_leads up to the loop
PollStart(p) ==
    /\ \E refresh_ok, hist_ok \in BOOLEAN, pages_ok \in 0..PagesNeeded(leads) :
          /\ token => refresh_ok
          /\ Charge(<<refresh_ok, hist_ok, pages_ok = PagesNeeded(leads)>>)
          /\ IF TokenRaises(token, refresh_ok)
             THEN /\ hist_ok /\ pages_ok = PagesNeeded(leads)
                  /\ run' = [run EXCEPT ![p] =
                        Raise([IdleRun EXCEPT !.kind = "poll"],
                              "get_all_leads", "500")]
                  /\ UNCHANGED token
             ELSE LET all_leads == get_records(leads, pages_ok)
                      message_history == get_all_messages(ledger, hist_ok)
                      new == new_leads(all_leads, message_history)
                      results == [checked |-> Len(all_leads), new_found |-> Len(new),
                                  sent |-> 0, failed |-> 0]
                      r == [IdleRun EXCEPT !.kind = "poll", !.results = results,
                                           !.template = template_env]
                  IN  /\ run' = [run EXCEPT ![p] =
                            IF ~Truthy(template_env)
                            THEN Respond(r, "error")
                            ELSE [r EXCEPT !.pc = "loop", !.i = 1,
                                           !.leads = Slice(new, poll_limit)]]
                      /\ token' = TRUE
    /\ UNCHANGED <<ledger, notes, sends, emails, envvars, fnvars>>

CheckNewLeads(p) ==
    /\ Accept(p)
    /\ PollStart(p)

PollAttempt(p) ==
    LET r == run[p] IN
    /\ r.kind = "poll" /\ r.pc = "loop" /\ r.i <= Len(r.leads)
    /\ IF NoPhone(Cur(r))
       THEN /\ run' = [run EXCEPT ![p] =
                  [r EXCEPT !.results.failed = @ + 1, !.i = r.i + 1]]
            /\ UNCHANGED <<sends, faults>>
       ELSE \E ok \in BOOLEAN :
            /\ Charge(<<ok>>)
            /\ sends' = sends + 1
            /\ run' = [run EXCEPT ![p] =
                  IF ok
                  THEN [r EXCEPT !.results.sent = @ + 1,
                                 !.result = "success", !.pc = "log"]
                  ELSE [r EXCEPT !.results.failed = @ + 1,
                                 !.result = "failure", !.pc = "sleep"]]
    /\ UNCHANGED <<ledger, notes, emails, token, started, envvars, fnvars>>

\* sheets.log_message(..., message_count=1, campaign_type='auto')
PollLog(p) ==
    LET r == run[p] IN
    /\ r.kind = "poll" /\ r.pc = "log"
    /\ \E ok \in BOOLEAN :
          /\ Charge(<<ok>>)
          /\ ledger' = log_message(ledger, Get(Cur(r).id, NoneV), 1, "auto", ok)
    /\ run' = [run EXCEPT ![p] = [r EXCEPT !.pc = "note"]]
    /\ UNCHANGED <<notes, sends, emails, token, started, envvars, fnvars>>

\* zoho.add_note; a failed token refresh is caught by the handler: 500
PollNote(p) ==
    LET r == run[p] IN
    /\ r.kind = "poll" /\ r.pc = "note"
    /\ \E refresh_ok, ok \in BOOLEAN :
          /\ token => refresh_ok
          /\ Charge(<<refresh_ok, ok>>)
          /\ IF TokenRaises(token, refresh_ok)
             THEN /\ ok
                  /\ run' = [run EXCEPT ![p] = Raise(r, "add_note", "500")]
                  /\ UNCHANGED <<notes, token>>
             ELSE /\ notes' = add_note(notes, Get(Cur(r).id, NoneV), ok)
                  /\ run' = [run EXCEPT ![p] = [r EXCEPT !.pc = "sleep"]]
                  /\ token' = TRUE
    /\ UNCHANGED <<ledger, sends, emails, started, envvars, fnvars>>

\* time.sleep(2), then the next lead
PollSleep(p) ==
    LET r == run[p] IN
    /\ r.kind = "poll" /\ r.pc = "sleep"
    /\ run' = [run EXCEPT ![p] = [r EXCEPT !.pc = "loop", !.i = r.i + 1]]
    /\ UNCHANGED <<ledger, notes, sends, emails, token, started, faults,
                   envvars, fnvars>>

PollFinish(p) ==
    LET r == run[p] IN
    /\ r.kind = "poll" /\ r.pc = "loop" /\ r.i > Len(r.leads)
    /\ run' = [run EXCEPT ![p] = Respond(r, "success")]
    /\ UNCHANGED <<ledger, notes, sends, emails, token, started, faults,
                   envvars, fnvars>>

-----------------------------------------------------------------------------
(* zoho_webhook and process_new_lead: the webhook path.                    *)

\* the request bodies delivered: no JSON body, or a body with these ids
WebhookBodies == {NoneV, [id |-> StrV("1")], [id |-> StrV("2")], [id |-> Absent]}

ZohoWebhook(p, data) ==
    /\ Accept(p)
    /\ IF data = NoneV
       THEN /\ run' = [run EXCEPT ![p] =
                  Raise([IdleRun EXCEPT !.kind = "webhook"], "data.get", "500")]
            /\ UNCHANGED <<token, sends, faults>>
       ELSE \E refresh_ok, fetch_ok, ok \in BOOLEAN :
            LET lead_id == Get(data.id, NoneV)
                r == [IdleRun EXCEPT !.kind = "webhook", !.lead_id = lead_id,
                                     !.template = template_env]
                lead == get_lead_by_id(leads, lead_id, fetch_ok)
            IN  /\ token => refresh_ok
                /\ Charge(<<refresh_ok, fetch_ok, ok>>)
                /\ IF TokenRaises(token, refresh_ok)
                   THEN /\ fetch_ok /\ ok
                        /\ run' = [run EXCEPT ![p] = Respond(r, "200")]
                        /\ UNCHANGED <<token, sends>>
                   ELSE /\ token' = TRUE
                        /\ IF lead = NoneV \/ NoPhone(lead) \/ ~Truthy(template_env)
                           THEN /\ ok
                                /\ run' = [run EXCEPT ![p] = Respond(r, "200")]
                                /\ UNCHANGED sends
                           ELSE /\ sends' = sends + 1
                                /\ run' = [run EXCEPT ![p] =
                                      IF ok
                                      THEN [r EXCEPT !.result = "success",
                                                     !.leads = <<lead>>, !.i = 1,
                                                     !.pc = "log"]
                                      ELSE Respond([r EXCEPT !.result = "failure"],
                                                   "200")]
    /\ UNCHANGED <<ledger, notes, emails, envvars, fnvars>>

\* sheets.log_message(lead_id=lead_id, ..., message_count=1, campaign_type='auto')
WebhookLog(p) ==
    LET r == run[p] IN
    /\ r.kind = "webhook" /\ r.pc = "log"
    /\ \E ok \in BOOLEAN :
          /\ Charge(<<ok>>)
          /\ ledger' = log_message(ledger, r.lead_id, 1, "auto", ok)
    /\ run' = [run EXCEPT ![p] = [r EXCEPT !.pc = "note"]]
    /\ UNCHANGED <<notes, sends, emails, token, started, envvars, fnvars>>

\* zoho.add_note; every exception is caught in process_new_lead
WebhookNote(p) ==
    LET r == run[p] IN
    /\ r.kind = "webhook" /\ r.pc = "note"
    /\ \E refresh_ok, ok \in BOOLEAN :
          /\ token => refresh_ok
          /\ Charge(<<refresh_ok, ok>>)
          /\ IF TokenRaises(token, refresh_ok)
             THEN /\ ok
                  /\ UNCHANGED <<notes, token>>
             ELSE /\ notes' = add_note(notes, r.lead_id, ok)
                  /\ token' = TRUE
    /\ run' = [run EXCEPT ![p] = Respond(r, "200")]
    /\ UNCHANGED <<ledger, sends, emails, started, envvars, fnvars>>

-----------------------------------------------------------------------------
(* The system: requests arrive one after the other (overlap = FALSE).      *)

\* the lead records the CRM can hold
CRMStates == {<<LeadA, LeadD, LeadC>>, <<LeadB, LeadA>>}

\* the segments of the approval requests made by hand; <<>> is none given
CampaignSegments ==
    {Seg("never_contacted"), Seg("first_message"), Seg("second_message"),
     Prefixed("status", <<"Contacted">>), <<>>}

\* the query strings of the approval links of the daily report
ReportLinks ==
    {[campaign_id |-> NoneV, segment |-> Seg("never_contacted"),
      template |-> StrV("welcome")],
     [campaign_id |-> NoneV, segment |-> Seg("first_message"),
      template |-> StrV("followup")],
     [campaign_id |-> NoneV, segment |-> Seg("second_message"),
      template |-> StrV("offer")],
     [campaign_id |-> NoneV, segment |-> Seg("high_potential"),
      template |-> StrV("priority")]}

\* the approval requests made: the links of the report and requests by hand
ApprovalRequests ==
    ReportLinks \cup
    {[campaign_id |-> StrV("c1"), segment |-> segment,
      template |-> StrV("welcome")] : segment \in CampaignSegments}

Init ==
    /\ leads \in CRMStates
    /\ ledger = <<>>
    /\ notes = <<>>
    /\ sends = 0
    /\ emails = 0
    /\ token = FALSE
    /\ template_env \in {NoneV, StrV("welcome_new")}
    /\ overlap = FALSE
    /\ run = [p \in Workers |-> IdleRun]
    /\ started = 0
    /\ faults = 0
    /\ snapshot = [leads |-> <<>>, message_history |-> <<>>]
    /\ cohorts = NoCohorts
    /\ resolved = NoResolved
    /\ summary = NoSummary

\* the steps of an approval request and its campaign
CampaignStep(p) ==
    \/ \E request \in ApprovalRequests :
          ApproveCampaign(p, request.campaign_id, request.segment,
                          request.template)
    \/ CampaignAttempt(p)
    \/ CampaignCount(p)
    \/ CampaignLog(p)
    \/ CampaignNote(p)
    \/ CampaignSleep(p)
    \/ CampaignFinish(p)

Step(p) ==
    \/ CampaignStep(p)
    \/ CheckNewLeads(p)
    \/ PollAttempt(p)
    \/ PollLog(p)
    \/ PollNote(p)
    \/ PollSleep(p)
    \/ PollFinish(p)
    \/ \E data \in WebhookBodies : ZohoWebhook(p, data)
    \/ WebhookLog(p)
    \/ WebhookNote(p)

Next ==
    \/ \E p \in Workers : Step(p)
    \/ TokenExpires

Spec == Init /\ [][Next]_vars

\* /check-new-leads called again and again by its scheduler, over a lead set
\* that does not change, with a transport, a ledger and a CRM that never fail
NoPhoneLeads(n) ==
    [k \in 1..n |-> Lead(StrV(Dec(10 + k)), NoneV, NoneV, StrV("New"), StrV("Web"))]

InitPolling ==
    /\ leads \in {NoPhoneLeads(n) \o <<LeadA>> : n \in 0..MaxNoPhone}
    /\ ledger = <<>>
    /\ notes = <<>>
    /\ sends = 0
    /\ emails = 0
    /\ token = FALSE
    /\ template_env = StrV("welcome_new")
    /\ overlap = FALSE
    /\ run = [p \in Workers |-> IdleRun]
    /\ started = 0
    /\ faults = MaxFaults
    /\ snapshot = [leads |-> <<>>, message_history |-> <<>>]
    /\ cohorts = NoCohorts
    /\ resolved = NoResolved
    /\ summary = NoSummary

\* the next call of the scheduler, once the call before has been answered
ScheduledPoll(p) ==
    /\ p \in ActiveWorkers
    /\ Free(p)
    /\ PollStart(p)
    /\ UNCHANGED started

PollStep(p) ==
    \/ ScheduledPoll(p)
    \/ PollAttempt(p)
    \/ PollLog(p)
    \/ PollNote(p)
    \/ PollSleep(p)
    \/ PollFinish(p)

NextPolling ==
    \/ \E p \in Workers : PollStep(p)
    \/ TokenExpires

SpecPolling == InitPolling /\ [][NextPolling]_vars /\ WF_vars(NextPolling)

\* campaigns approved while the server handles requests concurrently
InitOverlap ==
    /\ leads = <<LeadB, LeadA>>
    /\ ledger = <<>>
    /\ notes = <<>>
    /\ sends = 0
    /\ emails = 0
    /\ token = FALSE
    /\ template_env = StrV("welcome_new")
    /\ overlap = TRUE
    /\ run = [p \in Workers |-> IdleRun]
    /\ started = 0
    /\ faults = 0
    /\ snapshot = [leads |-> <<>>, message_history |-> <<>>]
    /\ cohorts = NoCohorts
    /\ resolved = NoResolved
    /\ summary = NoSummary

NextOverlap ==
    \/ \E p \in Workers : CampaignStep(p)
    \/ TokenExpires

SpecOverlap == InitOverlap /\ [][NextOverlap]_vars

-----------------------------------------------------------------------------
(* Properties of the pure functions, checked under SpecFn.                 *)

\* number of positions of the list that hold the lead
Occ(list, l) == Cardinality({i \in DOMAIN list : list[i] = l})

\* number of history records whose 'Lead ID' equals the lead's id as strings
HistoryCount(l, message_history) ==
    Cardinality({i \in DOMAIN message_history :
        Str(Get(message_history[i].Lead_ID, NoneV)) = Str(Get(l.id, NoneV))})

\* the leads of the list that satisfy the test, in the order of the list
RECURSIVE Filter(_, _)
Filter(list, keep) ==
    IF list = <<>> THEN <<>>
    ELSE IF list[Len(list)] \in keep
         THEN Append(Filter(Front(list), keep), list[Len(list)])
         ELSE Filter(Front(list), keep)

Range(list) == {list[i] : i \in DOMAIN list}

CountBucketNames ==
    {"never_contacted", "first_message", "second_message", "third_plus_message"}

\* C1: analyze_cohorts places every lead in exactly one of the four count
\* buckets, the one its number of history records (0, 1, 2, 3 or more)
\* selects, and the four buckets together hold exactly the leads, each once.
C1_CountPartition ==
    cohorts.called =>
        LET L == snapshot.leads
            H == snapshot.message_history
            c == cohorts.value
            n(l) == HistoryCount(l, H)
            want(l) == IF n(l) = 0 THEN "never_contacted"
                       ELSE IF n(l) = 1 THEN "first_message"
                       ELSE IF n(l) = 2 THEN "second_message"
                       ELSE "third_plus_message"
        IN  /\ \A l \in Range(L) : \A b \in CountBucketNames :
                  Occ(c[b], l) = IF b = want(l) THEN Occ(L, l) ELSE 0
            /\ \A b \in CountBucketNames : Range(c[b]) \subseteq Range(L)
            /\ Len(c.never_contacted) + Len(c.first_message)
                 + Len(c.second_message) + Len(c.third_plus_message) = Len(L)

\* a classification with a lead of three records and a lead of none
C1_Witness ==
    /\ cohorts.called
    /\ Len(cohorts.value.third_plus_message) > 0
    /\ Len(cohorts.value.never_contacted) > 0

\* the bucket key of a field value: "Unknown" for an absent field
KeyOf(v) == IF v = Absent THEN StrV("Unknown") ELSE v

Grouped(g, L, field) ==
    /\ \A k \in DOMAIN g :
          /\ g[k] # <<>>
          /\ \A i \in DOMAIN g[k] : g[k][i] \in Range(L) /\ KeyOf(g[k][i][field]) = k
    /\ \A l \in Range(L) :
          /\ KeyOf(l[field]) \in DOMAIN g
          /\ \A k \in DOMAIN g :
                Occ(g[k], l) = IF k = KeyOf(l[field]) THEN Occ(L, l) ELSE 0
          /\ l[field] = Absent => Occ(g[StrV("Unknown")], l) = Occ(L, l)

\* C2: every lead is in exactly one by_status and one by_source bucket, the
\* one keyed by its field value, or by "Unknown" when the field is absent;
\* no bucket is empty and the buckets of a grouping hold exactly the leads.
C2_KeyedPartition ==
    cohorts.called =>
        /\ Grouped(cohorts.value.by_status, snapshot.leads, "Lead_Status")
        /\ Grouped(cohorts.value.by_source, snapshot.leads, "Lead_Source")

\* a classification with a lead of absent status beside a lead of another
C2_Witness ==
    /\ cohorts.called
    /\ StrV("Unknown") \in DOMAIN cohorts.value.by_status
    /\ \E l \in Range(snapshot.leads) : l.Lead_Status = Absent
    /\ Cardinality(DOMAIN cohorts.value.by_status) = 2
    /\ Cardinality(DOMAIN cohorts.value.by_source) = 2

\* C3: a lead is in high_potential exactly when its status is "Contacted" or
\* "Qualified" and it has fewer than 2 history records; high_potential holds
\* leads of L only, in lead order, and its members keep their count bucket.
C3_HighPotential ==
    cohorts.called =>
        LET L == snapshot.leads
            H == snapshot.message_history
            c == cohorts.value
            hp == {l \in Range(L) :
                     /\ l.Lead_Status \in {StrV("Contacted"), StrV("Qualified")}
                     /\ HistoryCount(l, H) < 2}
        IN  /\ c.high_potential = Filter(L, hp)
            /\ \A l \in hp :
                  IF HistoryCount(l, H) = 0
                  THEN Occ(c.never_contacted, l) = Occ(L, l)
                  ELSE Occ(c.first_message, l) = Occ(L, l)

\* a lead of status "Contacted" with one record: first_message and high_potential
C3_Witness ==
    /\ cohorts.called
    /\ \E l \in Range(cohorts.value.high_potential) :
          /\ l \in Range(cohorts.value.first_message)
          /\ l.Lead_Status = StrV("Contacted")
    /\ Len(cohorts.value.high_potential) < Len(snapshot.leads)

\* C9: 'never_contacted' resolves to the leads of history count 0 and
\* 'first_message' to the leads of history count 1, in lead order.
C9_CountSegments ==
    resolved.called =>
        LET L == snapshot.leads
            H == snapshot.message_history
        IN  /\ resolved.segment = Seg("never_contacted") =>
                  resolved.value = Filter(L, {l \in Range(L) : HistoryCount(l, H) = 0})
            /\ resolved.segment = Seg("first_message") =>
                  resolved.value = Filter(L, {l \in Range(L) : HistoryCount(l, H) = 1})

\* 'first_message' resolved to some but not all of the leads
C9_Witness ==
    /\ resolved.called
    /\ resolved.segment = Seg("first_message")
    /\ Len(resolved.value) = 1
    /\ Len(snapshot.leads) = 2
    /\ \E l \in Range(snapshot.leads) :
          HistoryCount(l, snapshot.message_history) = 2

\* C10: 'status:' + v resolves to exactly the leads whose status equals v and
\* 'source:' + v to exactly the leads whose source equals v, for every v,
\* also one that contains ':'.
C10_FieldSegments ==
    resolved.called =>
        LET L == snapshot.leads
            v == Join(Tail(resolved.segment))
        IN  /\ StartsWith(resolved.segment, "status") =>
                  resolved.value = Filter(L, {l \in Range(L) : l.Lead_Status = StrV(v)})
            /\ StartsWith(resolved.segment, "source") =>
                  resolved.value = Filter(L, {l \in Range(L) : l.Lead_Source = StrV(v)})

-----------------------------------------------------------------------------
(* Properties of the campaign run, checked under Spec.                     *)

\* the lead has neither a Phone nor a Mobile value
Phoneless(lead) ==
    /\ lead.Phone \in {Absent, NoneV, StrV("")}
    /\ lead.Mobile \in {Absent, NoneV, StrV("")}

\* C4: a campaign run that reaches its end has success + failed = total,
\* total being the length of the resolved list and every lead without a
\* phone counted as failed; at the head of the loop success + failed is the
\* number of leads already processed.
C4_Accounting ==
    \A p \in Workers :
        LET r == run[p] IN
        r.kind = "campaign" =>
            /\ r.results.total = Len(r.leads)
            /\ r.pc = "loop" => r.results.success + r.results.failed = r.i - 1
            /\ r.pc \in {"count", "log", "note", "sleep"} =>
                  r.results.success + r.results.failed = r.i
            /\ (r.pc = "done" /\ r.response = "200") =>
                  /\ r.results.success + r.results.failed = r.results.total
                  /\ r.results.failed >=
                        Cardinality({k \in DOMAIN r.leads : Phoneless(r.leads[k])})

\* a finished run over three leads, one without a phone, one sent
C4_Witness ==
    \E p \in Workers :
        /\ run[p].kind = "campaign" /\ run[p].pc = "done" /\ run[p].response = "200"
        /\ run[p].results.total = 3
        /\ run[p].results.success >= 1
        /\ \E k \in DOMAIN run[p].leads : Phoneless(run[p].leads[k])

\* C5: the step of a campaign run on a lead without Phone and Mobile adds one
\* to failed and moves to the next lead, with no transport request, no
\* ledger row and no CRM note.
C5_NoPhoneSkipped ==
    [][\A p \in Workers :
        (/\ run[p].kind = "campaign" /\ run[p].pc = "loop"
         /\ run[p].i <= Len(run[p].leads)
         /\ Phoneless(run[p].leads[run[p].i])
         /\ run'[p] # run[p])
        => /\ run'[p].results.failed = run[p].results.failed + 1
           /\ run'[p].results.success = run[p].results.success
           /\ run'[p].pc = "loop" /\ run'[p].i = run[p].i + 1
           /\ sends' = sends /\ ledger' = ledger /\ notes' = notes]_vars

\* a run that has passed a lead without a phone and goes on to the next lead
C5_Witness ==
    \E p \in Workers :
        /\ run[p].kind = "campaign" /\ run[p].pc = "loop"
        /\ run[p].i >= 2 /\ run[p].i <= Len(run[p].leads)
        /\ Phoneless(run[p].leads[run[p].i - 1])
        /\ run[p].results.failed >= 1

\* C6: when the transport fails for a lead of a campaign run, failed grows by
\* one, no ledger row and no CRM note is written for the lead, and the run
\* goes on with the next lead of the list.
C6_TransportFailure ==
    [][\A p \in Workers :
        /\ (/\ run[p].kind = "campaign" /\ run[p].pc = "loop"
            /\ sends' # sends /\ run'[p] # run[p]
            /\ run'[p].result = "failure")
           => /\ run'[p].results.failed = run[p].results.failed + 1
              /\ run'[p].results.success = run[p].results.success
              /\ run'[p].pc = "sleep" /\ run'[p].i = run[p].i
              /\ ledger' = ledger /\ notes' = notes
        /\ (/\ run[p].kind = "campaign" /\ run[p].pc = "sleep"
            /\ run[p].result = "failure" /\ run'[p] # run[p])
           => /\ run'[p].pc = "loop" /\ run'[p].i = run[p].i + 1
              /\ run'[p].results = run[p].results
              /\ ledger' = ledger /\ notes' = notes]_vars

\* a run whose send to one lead failed and whose send to the next succeeded
C6_Witness ==
    \E p \in Workers :
        /\ run[p].kind = "campaign" /\ run[p].pc = "count"
        /\ run[p].result = "success"
        /\ run[p].results.success = 1
        /\ run[p].results.failed >
              Cardinality({k \in 1..(run[p].i - 1) : Phoneless(run[p].leads[k])})

\* C7: with no two runs overlapping, the Message Count values of the ledger
\* rows of one lead are strictly increasing in append order.
C7_SequenceIncreasing ==
    \A i, j \in DOMAIN ledger :
        (i < j /\ ledger[i].Lead_ID # "" /\ ledger[i].Lead_ID = ledger[j].Lead_ID)
            => ledger[i].Message_Count < ledger[j].Message_Count

\* C8: a campaign run that has entered its loop ends with the whole list
\* processed and the approval page returned, whatever add_note and the
\* summary email do.
C8_NoteNeverAborts ==
    \A p \in Workers :
        (run[p].kind = "campaign" /\ run[p].pc = "done" /\ run[p].i >= 1)
            => (run[p].response = "200" /\ run[p].i > Len(run[p].leads))

-----------------------------------------------------------------------------
(* Further properties of the pure functions, checked under SpecFn.         *)

\* C12: a history record without a 'Lead ID' counts for no lead, and a lead
\* without an id has count 0 whatever the history holds: the classifier and
\* the resolver place every such lead with the never contacted.
C12_MissingIdSkipped ==
    LET NoId == {l \in Range(snapshot.leads) : l.id = Absent}
    IN  /\ cohorts.called =>
              \A l \in NoId : l \in Range(cohorts.value.never_contacted)
        /\ (resolved.called /\ resolved.segment = Seg("never_contacted")) =>
              \A l \in NoId : l \in Range(resolved.value)

\* C20: on one snapshot the resolver returns what the classifier holds:
\* 'never_contacted' and 'first_message' are the buckets of those names, and
\* 'status:' + v is the by_status group of v and 'source:' + v the by_source
\* group of v (no lead where there is no group), for every v, "Unknown" included.
C20_ResolverIsClassifier ==
    resolved.called =>
        LET c == analyze_cohorts(snapshot.leads, snapshot.message_history)
            v == Join(Tail(resolved.segment))
        IN  /\ resolved.segment = Seg("never_contacted") =>
                  resolved.value = c.never_contacted
            /\ resolved.segment = Seg("first_message") =>
                  resolved.value = c.first_message
            /\ StartsWith(resolved.segment, "status") =>
                  resolved.value = DictGet(c.by_status, StrV(v), <<>>)
            /\ StartsWith(resolved.segment, "source") =>
                  resolved.value = DictGet(c.by_source, StrV(v), <<>>)

-----------------------------------------------------------------------------
(* Properties of the summary email, checked under SpecSummary.             *)

\* the count the key holds, 0 when the key is missing
CountOf(v) == Get(v, IntV(0)).n

\* C13: the success rate of a result is success / max(total, 1) and never a
\* division fault: a result of total 0, or without the total key, has rate 0,
\* and a result of total > 0 has rate success / total (as a percentage,
\* rounded to one decimal).  A result never has more successes than its total.
C13_SuccessRate ==
    summary.called =>
        LET success == CountOf(summary.results.success)
            total == CountOf(summary.results.total)
            tenths == summary.rate.tenths
        IN  /\ ~summary.rate.fault
            /\ tenths = RoundHalfEven(success * 1000, Max(total, 1))
            /\ success <= total =>
                  /\ total = 0 => tenths = 0
                  /\ total > 0 =>
                        /\ 2 * (tenths * total - success * 1000) <= total
                        /\ 2 * (success * 1000 - tenths * total) <= total

\* the summary of a result of total 0
C13_Witness ==
    /\ summary.called
    /\ summary.results.total = IntV(0)
    /\ summary.results.success = IntV(0)
    /\ summary.rate = [fault |-> FALSE, tenths |-> 0]
    /\ summary.sent

-----------------------------------------------------------------------------
(* Properties of the request handlers, checked under Spec.                 *)

\* the handler of worker p is between its first step and its response
InProgress(p) == run[p].pc \notin {"idle", "done"}

\* the segment is none of those get_leads_for_segment knows
Unrecognised(segment) ==
    /\ segment # Seg("never_contacted")
    /\ segment # Seg("first_message")
    /\ ~StartsWith(segment, "status")
    /\ ~StartsWith(segment, "source")

\* C11: a campaign run on a segment that is not 'never_contacted',
\* 'first_message', 'status:...' or 'source:...' resolves it to no lead
\* without an exception, ends with the approval page and total = 0, and none
\* of its steps sends a message, appends a ledger row or adds a note.
C11_UnrecognisedNoOp ==
    /\ [](\A p \in Workers :
            (run[p].kind = "campaign" /\ Unrecognised(run[p].segment))
                => /\ run[p].exc = "none"
                   /\ run[p].leads = <<>>
                   /\ run[p].results.total = 0
                   /\ run[p].pc = "done" => run[p].response = "200")
    /\ [][\A p \in Workers :
            (/\ run'[p].kind = "campaign" /\ Unrecognised(run'[p].segment)
             /\ run'[p] # run[p])
                => (sends' = sends /\ ledger' = ledger /\ notes' = notes)]_vars

\* C14: an approval request that carries a segment and a template reaches
\* execute_campaign with them: none is answered before it, and so none of
\* the links of the daily report, which carry a segment and a template only.
C14_ApprovalInvokes ==
    \A p \in Workers :
        (ArgPresent(run[p].segment) /\ Truthy(run[p].template)
            /\ run[p].kind \in {"approve", "campaign"})
                => run[p].kind = "campaign"

\* C15: get_all_leads never raises to its caller: whatever fails, the token
\* refresh included, the caller gets a list of the records fetched so far.
C15_GetAllLeadsNeverRaises ==
    \A p \in Workers :
        /\ run[p].exc # "get_all_leads"
        /\ (run[p].kind = "campaign" /\ run[p].i >= 1) =>
              \A k \in DOMAIN run[p].leads :
                  \E j \in DOMAIN leads : leads[j] = run[p].leads[k]

\* the responses that report a failure to the caller
ErrorResponses == {"error", "400", "500"}

\* C16: with NEW_LEAD_TEMPLATE unset, no step of a polling run or of a webhook
\* delivery sends a message, appends a ledger row or adds a note, and the
\* response of each reports an error, not a success.
C16_TemplateUnset ==
    /\ [](\A p \in Workers :
            (/\ run[p].kind \in {"poll", "webhook"} /\ run[p].pc = "done"
             /\ ~Truthy(template_env))
                => run[p].response \in ErrorResponses)
    /\ [][\A p \in Workers :
            (/\ run'[p].kind \in {"poll", "webhook"} /\ run'[p] # run[p]
             /\ ~Truthy(template_env))
                => (sends' = sends /\ ledger' = ledger /\ notes' = notes)]_vars

\* C17: in a campaign run the loop goes on to the next lead only by the delay
\* step: after every lead, counted as a success or as a failure, there is a
\* delay before the next one.
C17_DelayAfterEveryLead ==
    [][\A p \in Workers :
        (/\ run[p].kind = "campaign" /\ InProgress(p)
         /\ run'[p].i = run[p].i + 1)
            => run[p].pc = "sleep"]_vars

\* C17, amended: in a campaign run every request posted to the transport,
\* accepted or failed, is followed by the delay step before the next lead;
\* the loop goes on to the next lead without a delay only past a lead that
\* has no phone, to which nothing was posted.
C17_DelayAfterEverySend ==
    [][\A p \in Workers :
        (run[p].kind = "campaign" /\ InProgress(p)) =>
            /\ run'[p].i = run[p].i + 1 =>
                  \/ run[p].pc = "sleep"
                  \/ /\ run[p].pc = "loop" /\ Phoneless(Cur(run[p]))
                     /\ sends' = sends
            /\ (sends' # sends /\ run'[p] # run[p]) =>
                  /\ run'[p].i = run[p].i
                  /\ run'[p].pc \in {"count", "sleep"}]_vars

\* a run at the delay step after a failed send to its third lead, having
\* passed its second lead, without a phone, with no delay
C17_Witness ==
    \E p \in Workers :
        /\ run[p].kind = "campaign" /\ run[p].pc = "sleep"
        /\ run[p].result = "failure"
        /\ run[p].i = 3
        /\ Phoneless(run[p].leads[2])
        /\ run[p].results.failed = 2

\* C18: the ledger only grows, by rows appended at its end; and a campaign
\* run that an exception aborts leaves the ledger as it is, sends nothing
\* more, renders no summary, answers with the error, and takes no later step.
C18_AppendOnly ==
    [][/\ Len(ledger') >= Len(ledger)
       /\ SubSeq(ledger', 1, Len(ledger)) = ledger
       /\ \A p \in Workers :
            /\ (/\ run[p].kind = "campaign" /\ InProgress(p)
                /\ run'[p].exc # "none")
                  => /\ ledger' = ledger /\ sends' = sends
                     /\ emails' = emails /\ summary' = summary
                     /\ run'[p].pc = "done" /\ run'[p].response = "500"
                     /\ run'[p].i = run[p].i
            /\ (/\ run[p].kind = "campaign" /\ run[p].pc = "done"
                /\ run[p].exc # "none" /\ run'[p] # run[p])
                  => started' = started + 1]_vars

\* a run aborted at its third lead, the rows of its first and third lead in
\* the ledger, two messages sent and no summary
C18_Witness ==
    \E p \in Workers :
        /\ run[p].kind = "campaign" /\ run[p].pc = "done"
        /\ run[p].exc = "add_note" /\ run[p].response = "500"
        /\ run[p].i = 3
        /\ Len(ledger) = 2 /\ sends = 2
        /\ ~summary.called /\ emails = 0

-----------------------------------------------------------------------------
(* Properties of overlapping campaign runs, checked under SpecOverlap.     *)

\* the rows of the ledger before row j that are of the same lead as row j
EarlierRows(j) == {i \in 1..(j - 1) : ledger[i].Lead_ID = ledger[j].Lead_ID}

\* C19: a campaign run reads the count of a lead and appends the row in two
\* steps, so the position a row records is the one read and can be behind the
\* rows the ledger holds by then, never ahead of them: with two runs
\* overlapping, two rows of one lead can record the same position.
C19_ReadThenAppend ==
    /\ \A j \in DOMAIN ledger :
          /\ ledger[j].Message_Count >= 1
          /\ ledger[j].Message_Count <= Cardinality(EarlierRows(j)) + 1
    /\ \A p \in Workers :
          (run[p].kind = "campaign" /\ run[p].pc = "log") =>
              run[p].current_count <=
                  get_message_count(ledger, Get(Cur(run[p]).id, NoneV), TRUE) + 1

\* both runs have sent to the same lead, read the same count and appended
\* their rows, with no fault: two rows of the lead with the same position
C19_Witness ==
    /\ faults = 0
    /\ run["w1"].kind = "campaign" /\ run["w2"].kind = "campaign"
    /\ run["w1"].pc = "note" /\ run["w2"].pc = "note"
    /\ run["w1"].result = "success" /\ run["w2"].result = "success"
    /\ Cur(run["w1"]) = Cur(run["w2"])
    /\ run["w1"].current_count = run["w2"].current_count
    /\ \E i, j \in DOMAIN ledger :
          /\ i < j
          /\ ledger[i].Lead_ID = Cell(Get(Cur(run["w1"]).id, NoneV))
          /\ ledger[j].Lead_ID = ledger[i].Lead_ID
          /\ ledger[i].Message_Count = run["w1"].current_count
          /\ ledger[j].Message_Count = ledger[i].Message_Count

-----------------------------------------------------------------------------
(* The polling path against the resolver, checked under SpecFn.            *)

\* C23: on one snapshot the leads check_new_leads takes as new are the list
\* 'never_contacted' resolves to, for every snapshot, also one with a lead
\* without an id and history records without a 'Lead ID'.
C23_NewIsNeverContacted ==
    (resolved.called /\ resolved.segment = Seg("never_contacted")) =>
        resolved.value = new_leads(snapshot.leads, snapshot.message_history)

-----------------------------------------------------------------------------
(* Properties of the polling path, checked under Spec.                     *)

\* the ledger holds a row of the lead
HasRow(lead) ==
    \E j \in DOMAIN ledger :
        /\ ledger[j].Lead_ID # ""
        /\ ledger[j].Lead_ID = Cell(Get(lead.id, NoneV))

\* C21: a polling run posts to the transport only for a lead that has no row
\* in the ledger, whatever the read of the ledger gave, its failure included:
\* no lead that has a row is sent a message by polling.  (Runs do not
\* overlap and a run writes no row of a lead before its send to it, so the
\* rows of the lead at the send are those at the start of the run.)
C21_OnlyNewLeads ==
    [][\A p \in Workers :
        (/\ run[p].kind = "poll" /\ InProgress(p)
         /\ run'[p] # run[p] /\ sends' = sends + 1)
            => ~HasRow(Cur(run[p]))]_vars

-----------------------------------------------------------------------------
(* Repeated polling, checked under SpecPolling.                            *)

\* C22: with polling repeated for ever over an unchanging lead set and no
\* collaborator failing, every lead that has a phone is in the end sent its
\* message (and so has its row in the ledger), however many leads without a
\* phone come before it in the lead list.
C22_EventuallySent ==
    <>(\A k \in DOMAIN leads : ~Phoneless(leads[k]) => HasRow(leads[k]))

====
